---- MODULE Spec2Model ----
(***************************************************************************)
(* The training-request approval workflow of                               *)
(* backend/app/routes/training_requests.py.                                *)
(*                                                                         *)
(* Every HTTP handler is a coroutine with its own database session.  Run   *)
(* one at a time, a handler is one action (create_training_request,        *)
(* respond_to_request, get_pending_requests, get_my_training_requests).    *)
(* The handlers of concurrent HTTP requests interleave at their awaits: a  *)
(* writing handler is then cut where that matters to the stores, into the  *)
(* reads that come before its write (create_lookup, respond_select) and    *)
(* the checks made on what was read, the write, its commit and what        *)
(* follows it (create_commit, respond_commit).  The tables carry no        *)
(* uniqueness constraint and the handlers take no row lock, so the steps   *)
(* of different sessions interleave freely; a commit applies all the       *)
(* pending writes of its session at once or, when it fails, none.          *)
(* Both forms are built from the same checks and the same writes.          *)
(***************************************************************************)
EXTENDS Integers, Sequences, FiniteSets, TLC

\* ---------------------------------------------------------------- bounds
MaxRequests == 2        \* rows the training_requests table may hold
MaxTime == 2            \* last timestamp the clock gives
MaxRuns == 2            \* runs of create_training_requests_table.py

\* ---------------------------------------------------------------- domains
Procs == {"p1", "p2"}                   \* concurrently served HTTP requests
Emps == {"e1", "e2"}                    \* usernames of engineers
Mgrs == {"m1", "m2"}                    \* usernames of managers
NoUser == "nobody"                      \* current_user without "username"
NoManager == "no_manager"               \* no ManagerEmployee row
NoNotes == "no_notes"                   \* manager_notes IS NULL
NullDate == 0                           \* response_date IS NULL
Catalog == {1, 2}                       \* ids of the TrainingDetail rows
TrainingIds == {1, 3}                   \* a training_id of the catalog, and one that is not
StatusInputs == {"approved", "rejected"}   \* TrainingRequestUpdate.status
NotesInputs == {NoNotes, "ok"}          \* TrainingRequestUpdate.manager_notes

VARIABLES
    requests,       \* training_requests table: row i has id i
    assignments,    \* training_assignments table, in insertion order
    directory,      \* manager_employee table: employee -> manager
    pc,             \* per handler: the await it is suspended at
    call,           \* per handler: the arguments of the call it serves
    loc,            \* per handler: what its session has loaded
    response,       \* the HTTP response the last step sent, if it sent one
    schema,         \* the definition of training_requests the database holds
    migration       \* the run of create_training_requests_table.py

vars == <<requests, assignments, directory, pc, call, loc, response,
          schema, migration>>

\* ---------------------------------------------------------------- rows
\* A TrainingRequest row (columns of CREATE TABLE training_requests).
TrainingRequest(t, e, m, d) ==
    [training_id |-> t, employee_empid |-> e, manager_empid |-> m,
     request_date |-> d, status |-> "pending",
     manager_notes |-> NoNotes, response_date |-> NullDate]

\* A TrainingAssignment row.  request_id is a history field: it records the
\* request whose approval inserted the row (the table has no such column).
TrainingAssignment(r, id) ==
    [training_id |-> r.training_id, employee_empid |-> r.employee_empid,
     manager_empid |-> r.manager_empid, request_id |-> id]

NoRow == TrainingRequest(0, NoUser, NoManager, NullDate)
NoCall == [op |-> "none", user |-> NoUser, training_id |-> 0, request_id |-> 0,
           status |-> "pending", manager_notes |-> NoNotes]
NoLoc == [manager_relation |-> NoManager, existing |-> 0, found |-> FALSE,
          request |-> NoRow]
NoResponse == [call |-> NoCall, result |-> "none", listing |-> <<>>]

\* The response to call c: its outcome r and, of a listing, the ids listed.
Response(c, r, l) == [call |-> c, result |-> r, listing |-> l]

\* ---------------------------------------------------------------- clock
Max(S) == CHOOSE x \in S : \A y \in S : y <= x

\* The latest timestamp stored so far.
LatestTime ==
    Max({1} \cup {requests[i].request_date : i \in DOMAIN requests}
            \cup {requests[i].response_date : i \in DOMAIN requests})

\* What CURRENT_TIMESTAMP / datetime.utcnow() may give: the clock does not
\* run backwards.
Times == LatestTime..MaxTime

\* ---------------------------------------------------------------- queries
\* select(TrainingRequest).where(training_id == t, employee_empid == e)
ExistingRequests(t, e) ==
    {i \in DOMAIN requests :
        requests[i].training_id = t /\ requests[i].employee_empid = e}

\* The ManagerEmployee rows: at most one per employee.
ManagerEmployee ==
    {[employee_empid |-> e, manager_empid |-> directory[e]] :
        e \in {x \in Emps : directory[x] # NoManager}}

\* select(TrainingRequest, ManagerEmployee.employee_name).join(ManagerEmployee,
\*   TrainingRequest.employee_empid == ManagerEmployee.employee_empid)
JoinManagerEmployee ==
    {<<i, d>> \in (DOMAIN requests) \X ManagerEmployee :
        requests[i].employee_empid = d.employee_empid}

\* Sequences listing every id of S once, by request_date descending; rows of
\* equal request_date come in any order.
OrderByRequestDateDesc(S) ==
    {s \in [1..Cardinality(S) -> S] :
        /\ \A i, j \in 1..Cardinality(S) : i # j => s[i] # s[j]
        /\ \A i, j \in 1..Cardinality(S) :
              i < j => requests[s[i]].request_date >= requests[s[j]].request_date}

\* PendingRequestsOf without the status filter of line 144.
PendingRequestsOf_AnyStatus(m) ==
    {jr[1] : jr \in {x \in JoinManagerEmployee :
        requests[x[1]].manager_empid = m}}

\* The ids the query of get_pending_requests selects for manager m.
PendingRequestsOf(m) ==
    {jr[1] : jr \in {x \in JoinManagerEmployee :
        /\ requests[x[1]].manager_empid = m
        /\ requests[x[1]].status = "pending"}}

\* MyRequestsOf without the filter of line 113.
MyRequestsOf_Everyone(e) == DOMAIN requests

\* The ids the query of get_my_training_requests selects for employee e.
MyRequestsOf(e) ==
    {i \in DOMAIN requests : requests[i].employee_empid = e}

\* ---------------------------------------------------------------- checks and writes
\* ManagerRelation giving the same manager to every employee.
ManagerRelation_SameForAll(u) == IF u \in DOMAIN directory THEN "m1" ELSE NoManager

\* The ManagerEmployee lookup of lines 46-50 for user u.
ManagerRelation(u) == IF u \in DOMAIN directory THEN directory[u] ELSE NoManager

\* CreateError without the duplicate check of lines 66-70.
CreateError_NoDuplicateCheck(u, t, m, ex) ==
    IF u = NoUser THEN "Unauthenticated"
    ELSE IF t \notin Catalog THEN "NotFoundTraining"
    ELSE IF m = NoManager THEN "NotFoundManager"
    ELSE "none"

\* CreateError without the training check of lines 39-43.
CreateError_NoTrainingCheck(u, t, m, ex) ==
    IF u = NoUser THEN "Unauthenticated"
    ELSE IF m = NoManager THEN "NotFoundManager"
    ELSE IF ex > 1 THEN "InternalError"
    ELSE IF ex = 1 THEN "Conflict"
    ELSE "none"

\* CreateError with the duplicate check made before the manager check.
CreateError_DuplicateFirst(u, t, m, ex) ==
    IF u = NoUser THEN "Unauthenticated"
    ELSE IF t \notin Catalog THEN "NotFoundTraining"
    ELSE IF ex > 1 THEN "InternalError"
    ELSE IF ex = 1 THEN "Conflict"
    ELSE IF m = NoManager THEN "NotFoundManager"
    ELSE "none"

\* create_training_request, lines 27-70: the check that fails first, or
\* "none".  m is what the ManagerEmployee lookup gave and ex the number of
\* rows the lookup of an existing request matched (scalar_one_or_none raises
\* when there are several).
CreateError(u, t, m, ex) ==
    IF u = NoUser THEN "Unauthenticated"
    ELSE IF t \notin Catalog THEN "NotFoundTraining"
    ELSE IF m = NoManager THEN "NotFoundManager"
    ELSE IF ex > 1 THEN "InternalError"
    ELSE IF ex = 1 THEN "Conflict"
    ELSE "none"

\* RespondError with the status check made before the manager check.
RespondError_StatusFirst(u, found, loaded) ==
    IF u = NoUser THEN "Unauthenticated"
    ELSE IF ~found THEN "NotFoundRequest"
    ELSE IF loaded.status # "pending" THEN "Conflict"
    ELSE IF loaded.manager_empid # u THEN "Forbidden"
    ELSE "none"

\* RespondError without the pending check of lines 211-216.
RespondError_NoPendingCheck(u, found, loaded) ==
    IF u = NoUser THEN "Unauthenticated"
    ELSE IF ~found THEN "NotFoundRequest"
    ELSE IF loaded.manager_empid # u THEN "Forbidden"
    ELSE "none"

\* respond_to_request, lines 186-216: the check that fails first, or "none".
\* found tells whether the lookup of the request gave a row, loaded is the
\* row it gave.
RespondError(u, found, loaded) ==
    IF u = NoUser THEN "Unauthenticated"
    ELSE IF ~found THEN "NotFoundRequest"
    ELSE IF loaded.manager_empid # u THEN "Forbidden"
    ELSE IF loaded.status # "pending" THEN "Conflict"
    ELSE "none"

\* UpdatedRequest that also resolves manager_empid from the directory again.
UpdatedRequest_ManagerResolvedAgain(row, loaded, st, n, t) ==
    [row EXCEPT !.status = IF st # loaded.status THEN st ELSE @,
                !.manager_notes = IF n # loaded.manager_notes THEN n ELSE @,
                !.response_date = IF t # loaded.response_date THEN t ELSE @,
                !.manager_empid = ManagerRelation(row.employee_empid)]

\* UpdatedRequest without the response_date of line 221.
UpdatedRequest_NoResponseDate(row, loaded, st, n, t) ==
    [row EXCEPT !.status = IF st # loaded.status THEN st ELSE @,
                !.manager_notes = IF n # loaded.manager_notes THEN n ELSE @]

\* The UPDATE the session flushes for lines 219-221: it sets the columns
\* whose new value differs from the value the session loaded.
UpdatedRequest(row, loaded, st, n, t) ==
    [row EXCEPT !.status = IF st # loaded.status THEN st ELSE @,
                !.manager_notes = IF n # loaded.manager_notes THEN n ELSE @,
                !.response_date = IF t # loaded.response_date THEN t ELSE @]

\* AssignmentsAfter without the test of line 224: an assignment whatever the
\* new status is.
AssignmentsAfter_AnyStatus(loaded, id, st) ==
    Append(assignments, TrainingAssignment(loaded, id))

\* The rows of training_assignments after lines 224-231.
AssignmentsAfter(loaded, id, st) ==
    IF st = "approved"
      THEN Append(assignments, TrainingAssignment(loaded, id))
      ELSE assignments

\* respond_write with the assignment left out of the transaction that
\* writes the status.
respond_write_StatusOnly(loaded, id, st, n, t) ==
    /\ requests' = [requests EXCEPT ![id] = UpdatedRequest(@, loaded, st, n, t)]
    /\ assignments' = assignments

\* What db.commit() of respond_to_request (line 233) writes at time t: the
\* UPDATE and the INSERT in one transaction.
respond_write(loaded, id, st, n, t) ==
    /\ requests' = [requests EXCEPT ![id] = UpdatedRequest(@, loaded, st, n, t)]
    /\ assignments' = AssignmentsAfter(loaded, id, st)

\* respond_to_request, lines 236-252: the re-read of request id joined with
\* ManagerEmployee.
Refetched(id) ==
    IF \E jr \in JoinManagerEmployee : jr[1] = id
      THEN "Updated"
      ELSE "NotFoundAfterUpdate"

CreateCall(u, t) == [NoCall EXCEPT !.op = "create", !.user = u, !.training_id = t]
RespondCall(u, id, st, n) ==
    [NoCall EXCEPT !.op = "respond", !.user = u, !.request_id = id,
                   !.status = st, !.manager_notes = n]
ListCall(op, u) == [NoCall EXCEPT !.op = op, !.user = u]

\* The row lookup of respond_to_request, lines 194-196.
LoadedRequest(id) == IF id \in DOMAIN requests THEN requests[id] ELSE NoRow

\* ---------------------------------------------------------------- schema
\* The columns every training_requests table has had, and the two that
\* create_training_requests_table adds to a table made without them.
BaseColumns == {"id", "training_id", "employee_empid", "manager_empid",
                "request_date", "status"}
AddedColumns == <<"manager_notes", "response_date">>

\* The indexes of the script, in the order it creates them.
Indexes == <<"idx_training_requests_employee", "idx_training_requests_manager",
             "idx_training_requests_status">>

Range(f) == {f[k] : k \in DOMAIN f}

\* No training_requests table.
NoTable == [exists |-> FALSE, columns |-> {}, indexes |-> {}]

\* CREATE TABLE training_requests (...), lines 89-103.
CreateTable ==
    [exists |-> TRUE, columns |-> BaseColumns \cup Range(AddedColumns),
     indexes |-> {}]

\* ALTER TABLE training_requests ADD COLUMN c, lines 47-49 and 54-56.
AlterTableAddColumn(s, c) == [s EXCEPT !.columns = @ \cup {c}]

\* CREATE INDEX ix ON training_requests (...), lines 67-81 and 106-116.
CreateIndex(s, ix) == [s EXCEPT !.indexes = @ \cup {ix}]

\* The table with both added columns and the three indexes.
MigratedSchema ==
    [exists |-> TRUE, columns |-> BaseColumns \cup Range(AddedColumns),
     indexes |-> Range(Indexes)]

\* No run of the script is under way.  conn is the table as the transaction
\* of the run sees it, column_names and existing_indexes are the lists the
\* run has read, runs counts the runs that ended; initial is a history
\* field: the table before the first run.
NoMigration(s) ==
    [pc |-> "idle", k |-> 0, conn |-> NoTable, column_names |-> {},
     existing_indexes |-> {}, runs |-> 0, initial |-> s]

\* The handlers run on the migrated database.
Init ==
    /\ requests = <<>>
    /\ assignments = <<>>
    /\ directory \in [Emps -> Mgrs \cup {NoManager}]
    /\ pc = [p \in Procs |-> "idle"]
    /\ call = [p \in Procs |-> NoCall]
    /\ loc = [p \in Procs |-> NoLoc]
    /\ response = NoResponse
    /\ schema = MigratedSchema
    /\ migration = NoMigration(MigratedSchema)

\* ---------------------------------------------------------------- one at a time
\* create_training_request, lines 27-93.
create_training_request(u, t) ==
    LET m == ManagerRelation(u)
        err == CreateError(u, t, m, Cardinality(ExistingRequests(t, u)))
    IN  /\ \/ /\ err # "none"
              /\ response' = Response(CreateCall(u, t), err, <<>>)
              /\ UNCHANGED requests
           \/ /\ err = "none"
              /\ Len(requests) < MaxRequests
              /\ \E d \in Times :
                    requests' = Append(requests, TrainingRequest(t, u, m, d))
              /\ response' = Response(CreateCall(u, t), "Created", <<>>)
           \/ /\ err = "none"              \* the commit raises: rolled back
              /\ response' = Response(CreateCall(u, t), "InternalError", <<>>)
              /\ UNCHANGED requests
        /\ UNCHANGED <<assignments, directory, pc, call, loc, schema, migration>>

\* respond_to_request, lines 186-274.
respond_to_request(u, id, st, n) ==
    LET loaded == LoadedRequest(id)
        err == RespondError(u, id \in DOMAIN requests, loaded)
        c == RespondCall(u, id, st, n)
    IN  /\ \/ /\ err # "none"
              /\ response' = Response(c, err, <<>>)
              /\ UNCHANGED <<requests, assignments>>
           \/ /\ err = "none"
              /\ \E t \in Times : respond_write(loaded, id, st, n, t)
              /\ response' = Response(c, Refetched(id), <<>>)
           \/ /\ err = "none"              \* the commit raises: rolled back
              /\ response' = Response(c, "InternalError", <<>>)
              /\ UNCHANGED <<requests, assignments>>
        /\ UNCHANGED <<directory, pc, call, loc, schema, migration>>

\* get_pending_requests, lines 128-174.
get_pending_requests(u) ==
    /\ IF u = NoUser
         THEN response' = Response(ListCall("pending", u), "Unauthenticated", <<>>)
         ELSE \E s \in OrderByRequestDateDesc(PendingRequestsOf(u)) :
                 response' = Response(ListCall("pending", u), "Listed", s)
    /\ UNCHANGED <<requests, assignments, directory, pc, call, loc,
                   schema, migration>>

\* get_my_training_requests, lines 103-118.
get_my_training_requests(u) ==
    /\ IF u = NoUser
         THEN response' = Response(ListCall("my", u), "Unauthenticated", <<>>)
         ELSE \E s \in OrderByRequestDateDesc(MyRequestsOf(u)) :
                 response' = Response(ListCall("my", u), "Listed", s)
    /\ UNCHANGED <<requests, assignments, directory, pc, call, loc,
                   schema, migration>>

\* ---------------------------------------------------------------- interleaved
\* The handler p raises or returns: its response is r.
Finish(p, c, r) ==
    /\ pc' = [pc EXCEPT ![p] = "idle"]
    /\ call' = [call EXCEPT ![p] = NoCall]
    /\ loc' = [loc EXCEPT ![p] = NoLoc]
    /\ response' = Response(c, r, <<>>)

\* The handler p, called with c, gets to the await of its write.
Suspend(p, c, at, l) ==
    /\ pc' = [pc EXCEPT ![p] = at]
    /\ call' = [call EXCEPT ![p] = c]
    /\ loc' = [loc EXCEPT ![p] = l]
    /\ response' = NoResponse

\* Handlers that go on to insert a training_requests row.
Creating == {q \in Procs : pc[q] = "c_existing" /\ loc[q].existing = 0}

\* create_training_request, lines 27-63: the identity check, the training
\* and the manager lookups with their checks, and the lookup of an existing
\* request for (training_id, employee_empid).
create_lookup(p, u, t) ==
    /\ pc[p] = "idle"
    /\ CreateError(u, t, ManagerRelation(u), Cardinality(ExistingRequests(t, u))) = "none"
          => Len(requests) + Cardinality(Creating) < MaxRequests
    /\ IF CreateError(u, t, ManagerRelation(u), 0) # "none"
         THEN Finish(p, CreateCall(u, t), CreateError(u, t, ManagerRelation(u), 0))
         ELSE Suspend(p, CreateCall(u, t), "c_existing",
                      [NoLoc EXCEPT !.manager_relation = ManagerRelation(u),
                                    !.existing = Cardinality(ExistingRequests(t, u))])
    /\ UNCHANGED <<requests, assignments, directory, schema, migration>>

\* create_training_request, lines 64-93: scalar_one_or_none, the duplicate
\* check, the insert and its commit, and the re-read of the new row.
create_commit(p) ==
    LET c == call[p]
        err == CreateError(c.user, c.training_id, loc[p].manager_relation,
                           loc[p].existing)
    IN  /\ pc[p] = "c_existing"
        /\ \/ /\ err # "none"
              /\ Finish(p, c, err)
              /\ UNCHANGED requests
           \/ /\ err = "none"
              /\ \E d \in Times :
                    requests' = Append(requests,
                        TrainingRequest(c.training_id, c.user,
                                        loc[p].manager_relation, d))
              /\ Finish(p, c, "Created")
           \/ /\ err = "none"              \* the commit raises: rolled back
              /\ Finish(p, c, "InternalError")
              /\ UNCHANGED requests
        /\ UNCHANGED <<assignments, directory, schema, migration>>

\* respond_to_request, lines 186-195: the identity check and the lookup of
\* the request.
respond_select(p, u, id, st, n) ==
    /\ pc[p] = "idle"
    /\ IF u = NoUser
         THEN Finish(p, RespondCall(u, id, st, n), "Unauthenticated")
         ELSE Suspend(p, RespondCall(u, id, st, n), "r_request",
                      [NoLoc EXCEPT !.found = id \in DOMAIN requests,
                                    !.request = LoadedRequest(id)])
    /\ UNCHANGED <<requests, assignments, directory, schema, migration>>

\* respond_to_request, lines 196-274: the three checks, the update, the
\* assignment, the commit and the re-read of the request.
respond_commit(p) ==
    LET c == call[p]
        err == RespondError(c.user, loc[p].found, loc[p].request)
    IN  /\ pc[p] = "r_request"
        /\ \/ /\ err # "none"
              /\ Finish(p, c, err)
              /\ UNCHANGED <<requests, assignments>>
           \/ /\ err = "none"
              /\ \E t \in Times :
                    respond_write(loc[p].request, c.request_id, c.status,
                                  c.manager_notes, t)
              /\ Finish(p, c, Refetched(c.request_id))
           \/ /\ err = "none"              \* the commit raises: rolled back
              /\ Finish(p, c, "InternalError")
              /\ UNCHANGED <<requests, assignments>>
        /\ UNCHANGED <<directory, schema, migration>>

\* ---------------------------------------------------------------- environment
\* The manager_employee table is maintained outside this workflow: the entry
\* of an employee is replaced or removed.
DirectoryChange(e, m) ==
    /\ directory[e] # m
    /\ directory' = [directory EXCEPT ![e] = m]
    /\ response' = NoResponse
    /\ UNCHANGED <<requests, assignments, pc, call, loc, schema, migration>>

\* ---------------------------------------------------------------- migration
\* create_training_requests_table, backend/create_training_requests_table.py.
\* The statements of a run are executed in one transaction (engine.begin()),
\* which is committed when the block of line 25 is left.
Workflow == <<requests, assignments, directory, pc, call, loc, response>>

\* IndexMissing that finds an index missing only when the table has none.
IndexMissing_OnlyWhenNone(existing_indexes, ix) == existing_indexes = {}

\* The tests of lines 66, 72 and 78.
IndexMissing(existing_indexes, ix) == ix \notin existing_indexes

\* The tests of lines 45 and 52.
ColumnMissing(column_names, c) == c \notin column_names

\* Line 25: the run opens its connection and begins the transaction.
migration_begin ==
    /\ migration.pc = "idle"
    /\ migration.runs < MaxRuns
    /\ migration' = [migration EXCEPT !.pc = "tables", !.conn = schema]
    /\ UNCHANGED <<schema, Workflow>>

\* Lines 27-34 and 85: the lookup of the table in information_schema.tables.
migration_table_exists ==
    /\ migration.pc = "tables"
    /\ migration' = [migration EXCEPT
            !.pc = IF migration.conn.exists THEN "columns" ELSE "create_table"]
    /\ UNCHANGED <<schema, Workflow>>

\* Lines 38-43: the column names of the table are read.
migration_columns ==
    /\ migration.pc = "columns"
    /\ migration' = [migration EXCEPT !.pc = "add_column", !.k = 1,
                                      !.column_names = migration.conn.columns]
    /\ UNCHANGED <<schema, Workflow>>

\* Lines 45-50 and 52-57: a column not among the names read is added.
migration_add_column ==
    /\ migration.pc = "add_column"
    /\ migration' = [migration EXCEPT
            !.conn = IF ColumnMissing(migration.column_names,
                                      AddedColumns[migration.k])
                       THEN AlterTableAddColumn(@, AddedColumns[migration.k])
                       ELSE @,
            !.pc = IF migration.k < Len(AddedColumns) THEN "add_column"
                                                      ELSE "indexes",
            !.k = IF migration.k < Len(AddedColumns) THEN @ + 1 ELSE 0]
    /\ UNCHANGED <<schema, Workflow>>

\* Lines 60-64: the names of the indexes of the table are read.
migration_indexes ==
    /\ migration.pc = "indexes"
    /\ migration' = [migration EXCEPT !.pc = "add_index", !.k = 1,
                                      !.existing_indexes = migration.conn.indexes]
    /\ UNCHANGED <<schema, Workflow>>

\* Lines 66-82: an index not among the names read is created.
migration_add_index ==
    /\ migration.pc = "add_index"
    /\ migration' = [migration EXCEPT
            !.conn = IF IndexMissing(migration.existing_indexes,
                                     Indexes[migration.k])
                       THEN CreateIndex(@, Indexes[migration.k])
                       ELSE @,
            !.pc = IF migration.k < Len(Indexes) THEN "add_index" ELSE "commit",
            !.k = IF migration.k < Len(Indexes) THEN @ + 1 ELSE 0]
    /\ UNCHANGED <<schema, Workflow>>

\* Lines 86-103: the table is created.
migration_create_table ==
    /\ migration.pc = "create_table"
    /\ migration' = [migration EXCEPT !.pc = "create_index", !.k = 1,
                                      !.conn = CreateTable]
    /\ UNCHANGED <<schema, Workflow>>

\* Lines 105-116: the indexes of the new table are created.
migration_create_index ==
    /\ migration.pc = "create_index"
    /\ migration' = [migration EXCEPT
            !.conn = CreateIndex(@, Indexes[migration.k]),
            !.pc = IF migration.k < Len(Indexes) THEN "create_index" ELSE "commit",
            !.k = IF migration.k < Len(Indexes) THEN @ + 1 ELSE 0]
    /\ UNCHANGED <<schema, Workflow>>

\* The block of line 25 is left: the transaction is committed and the run
\* ends (lines 119-124).
migration_commit ==
    /\ migration.pc = "commit"
    /\ schema' = migration.conn
    /\ migration' = [NoMigration(migration.initial) EXCEPT
                         !.runs = migration.runs + 1]
    /\ UNCHANGED Workflow

\* ---------------------------------------------------------------- specifications
\* The (status, manager_notes) pairs a manager sends: an approval with a note
\* and a rejection without one.
Decisions ==
    {d \in StatusInputs \X NotesInputs : (d[1] = "approved") <=> (d[2] = "ok")}

\* The calls a client makes.  A call without identity is rejected before its
\* arguments are looked at, so one such call per operation is drawn.
CreateInputs == (Emps \X TrainingIds) \cup {<<NoUser, 1>>}
RespondInputs ==
    {<<m, id, d[1], d[2]>> :
        m \in Mgrs, id \in 1..(Len(requests) + 1), d \in Decisions}
      \cup {<<NoUser, 1, "approved", NoNotes>>}

\* Operations run one at a time.
NextSeq ==
    \/ \E i \in CreateInputs : create_training_request(i[1], i[2])
    \/ \E i \in RespondInputs : respond_to_request(i[1], i[2], i[3], i[4])
    \/ \E u \in Mgrs \cup {NoUser} : get_pending_requests(u)
    \/ \E u \in Emps \cup {NoUser} : get_my_training_requests(u)
    \/ \E e \in Emps, m \in Mgrs \cup {NoManager} : DirectoryChange(e, m)

SpecSeq == Init /\ [][NextSeq]_vars

\* Handlers of concurrent HTTP requests interleave at their awaits: the
\* requests of one employee for one training and the answers of the manager.
InitRace == Init /\ directory = [e \in Emps |-> "m1"]

NextRace ==
    \/ \E p \in Procs : create_lookup(p, "e1", 1)
    \/ \E p \in Procs, id \in DOMAIN requests, d \in Decisions :
          respond_select(p, "m1", id, d[1], d[2])
    \/ \E p \in Procs : create_commit(p)
    \/ \E p \in Procs : respond_commit(p)

Spec == InitRace /\ [][NextRace]_vars

\* Operations run one at a time on a directory that stays as it is: the
\* employees ask for the trainings of the catalog, their manager answers and
\* the employees read their listings.
NextList ==
    \/ \E u \in Emps, t \in Catalog : create_training_request(u, t)
    \/ \E id \in DOMAIN requests, d \in Decisions :
          respond_to_request("m1", id, d[1], d[2])
    \/ \E u \in Emps : get_my_training_requests(u)

SpecList == InitRace /\ [][NextList]_vars

\* The tables the migration may find: none, or training_requests with any of
\* the two added columns and any of the three indexes.
StartSchemas ==
    {NoTable} \cup
    {[exists |-> TRUE, columns |-> BaseColumns \cup cs, indexes |-> ixs] :
        cs \in SUBSET Range(AddedColumns), ixs \in SUBSET Range(Indexes)}

InitMigration ==
    /\ requests = <<>>
    /\ assignments = <<>>
    /\ directory = [e \in Emps |-> NoManager]
    /\ pc = [p \in Procs |-> "idle"]
    /\ call = [p \in Procs |-> NoCall]
    /\ loc = [p \in Procs |-> NoLoc]
    /\ response = NoResponse
    /\ schema \in StartSchemas
    /\ migration = NoMigration(schema)

\* The script is run, one run after the other.
NextMigration ==
    \/ migration_begin
    \/ migration_table_exists
    \/ migration_columns
    \/ migration_add_column
    \/ migration_indexes
    \/ migration_add_index
    \/ migration_create_table
    \/ migration_create_index
    \/ migration_commit

SpecMigration == InitMigration /\ [][NextMigration]_vars

\* ---------------------------------------------------------------- properties
\* The assignments the approval of request i inserted.
AssignmentsOf(i) == {k \in DOMAIN assignments : assignments[k].request_id = i}

\* The last step answered a call of operation op.
Answered(op) == response'.call.op = op

\* C1: under any interleaving of concurrent creations, no reachable state
\* holds two training_requests rows with the same (training_id,
\* employee_empid).
C1_OneRequestPerPair ==
    \A i, j \in DOMAIN requests :
        (/\ requests[i].training_id = requests[j].training_id
         /\ requests[i].employee_empid = requests[j].employee_empid) => i = j

\* C2: of two concurrent answers of the manager to the same pending request
\* at most one succeeds: the call that gets to its write when the stored
\* status is no longer pending writes nothing and fails (with Conflict, or
\* with the error of a commit that raised).
C2_OneResponderSucceeds ==
    [][\A p \in Procs :
          (/\ pc[p] = "r_request"
           /\ pc'[p] = "idle"
           /\ loc[p].found
           /\ call[p].user = requests[call[p].request_id].manager_empid
           /\ requests[call[p].request_id].status # "pending")
          => (/\ response'.result \in {"Conflict", "InternalError"}
              /\ UNCHANGED <<requests, assignments>>)]_vars

\* C3, as claimed: with operations run one at a time, a creation for a pair
\* (T, E) that already has a request fails with Conflict, and exactly one
\* row for (T, E) is stored afterwards.
C3_SecondCreateConflicts ==
    [][(/\ Answered("create")
        /\ response'.call.user # NoUser
        /\ ExistingRequests(response'.call.training_id, response'.call.user) # {})
       => (/\ response'.result = "Conflict"
           /\ UNCHANGED requests
           /\ Cardinality(ExistingRequests(response'.call.training_id,
                                           response'.call.user)) = 1)]_vars

\* C3, amended: with operations run one at a time, a creation for a pair
\* (T, E) that already has a request fails with Conflict when the directory
\* resolves a manager for E at that call and with NotFound(manager) when it
\* does not; either way exactly one row for (T, E) is stored afterwards.
C3_SecondCreateFails ==
    [][(/\ Answered("create")
        /\ response'.call.user # NoUser
        /\ ExistingRequests(response'.call.training_id, response'.call.user) # {})
       => (/\ response'.result =
                 IF ManagerRelation(response'.call.user) = NoManager
                   THEN "NotFoundManager" ELSE "Conflict"
           /\ UNCHANGED requests
           /\ Cardinality(ExistingRequests(response'.call.training_id,
                                           response'.call.user)) = 1)]_vars

\* A second creation for a pair was just refused with Conflict, and the pair
\* has its one row.
C3_Witness ==
    /\ response.call.op = "create"
    /\ response.result = "Conflict"
    /\ Cardinality(ExistingRequests(response.call.training_id,
                                    response.call.user)) = 1

\* C4: with operations run one at a time, every approved request has exactly
\* one assignment made from it, with the training_id, employee_empid and
\* manager_empid of the request, and a pending or rejected request has none.
C4_AssignmentIffApproved ==
    \A i \in DOMAIN requests :
        IF requests[i].status = "approved"
          THEN /\ Cardinality(AssignmentsOf(i)) = 1
               /\ \A k \in AssignmentsOf(i) :
                     /\ assignments[k].training_id = requests[i].training_id
                     /\ assignments[k].employee_empid = requests[i].employee_empid
                     /\ assignments[k].manager_empid = requests[i].manager_empid
          ELSE AssignmentsOf(i) = {}

\* One request was approved and has its assignment, another was rejected.
C4_Witness ==
    /\ \E i \in DOMAIN requests :
          requests[i].status = "approved" /\ AssignmentsOf(i) # {}
    /\ \E i \in DOMAIN requests : requests[i].status = "rejected"

\* C5: the transition to approved and the insert of the assignment are one
\* atomic unit: in every state, also between the steps of concurrent
\* handlers and after a commit that raised, an approved request has an
\* assignment made from it and a pending request has none.
C5_ApprovalAtomic ==
    \A i \in DOMAIN requests :
        /\ requests[i].status = "approved" => AssignmentsOf(i) # {}
        /\ requests[i].status = "pending" => AssignmentsOf(i) = {}

\* The commit of an approval just raised and left its request pending with
\* no assignment, while another request is approved and has its assignment.
C5_Witness ==
    /\ response.call.op = "respond"
    /\ response.call.status = "approved"
    /\ response.result = "InternalError"
    /\ requests[response.call.request_id].status = "pending"
    /\ AssignmentsOf(response.call.request_id) = {}
    /\ \E i \in DOMAIN requests :
          requests[i].status = "approved" /\ AssignmentsOf(i) # {}

\* C6: the status is a one-shot state machine: a request starts pending, a
\* step leaves a pending status pending or moves it to approved or rejected,
\* and no step changes a status that is approved or rejected.
C6_StatusOneShot ==
    [][\A i \in DOMAIN requests' :
          IF i \in DOMAIN requests
            THEN /\ requests'[i].status \in {"pending", "approved", "rejected"}
                 /\ requests[i].status # "pending"
                       => requests'[i].status = requests[i].status
            ELSE requests'[i].status = "pending"]_vars

\* C7: an answer to an existing request by a caller who is not its stored
\* manager_empid fails with Forbidden, whatever the status of the request
\* and whoever the directory names as the employee's manager, and changes
\* neither the requests nor the assignments.
C7_OtherCallerForbidden ==
    [][(/\ Answered("respond")
        /\ response'.call.user # NoUser
        /\ response'.call.request_id \in DOMAIN requests
        /\ requests[response'.call.request_id].manager_empid # response'.call.user)
       => (/\ response'.result = "Forbidden"
           /\ UNCHANGED <<requests, assignments>>)]_vars

\* A caller whom the directory now names as the employee's manager, but who
\* is not the stored manager, was just refused on a request already answered.
C7_Witness ==
    /\ response.call.op = "respond"
    /\ response.result = "Forbidden"
    /\ requests[response.call.request_id].status # "pending"
    /\ directory[requests[response.call.request_id].employee_empid]
          = response.call.user

\* C8: an answer by the manager of a request that is already approved or
\* rejected fails with Conflict, leaves its status, manager_notes and
\* response_date as they are and creates no assignment.
C8_AnsweredRequestConflicts ==
    [][(/\ Answered("respond")
        /\ response'.call.request_id \in DOMAIN requests
        /\ requests[response'.call.request_id].manager_empid = response'.call.user
        /\ requests[response'.call.request_id].status \in {"approved", "rejected"})
       => (/\ response'.result = "Conflict"
           /\ requests'[response'.call.request_id].status
                 = requests[response'.call.request_id].status
           /\ requests'[response'.call.request_id].manager_notes
                 = requests[response'.call.request_id].manager_notes
           /\ requests'[response'.call.request_id].response_date
                 = requests[response'.call.request_id].response_date
           /\ assignments' = assignments)]_vars

\* The manager just tried to change the answer of a request (another status,
\* at a later time) and got Conflict.
C8_Witness ==
    /\ response.call.op = "respond"
    /\ response.result = "Conflict"
    /\ requests[response.call.request_id].manager_empid = response.call.user
    /\ requests[response.call.request_id].status # response.call.status
    /\ requests[response.call.request_id].response_date < MaxTime

\* C9: an answer that passes the three checks never gets the NotFound raised
\* after the update.
C9_NoNotFoundAfterUpdate == response.result # "NotFoundAfterUpdate"

\* C10: the listing of manager M holds every request whose manager_empid is
\* M and whose status is pending.
C10_PendingListingComplete ==
    (response.call.op = "pending" /\ response.result = "Listed")
    => \A i \in DOMAIN requests :
          (/\ requests[i].manager_empid = response.call.user
           /\ requests[i].status = "pending")
          => \E k \in DOMAIN response.listing : response.listing[k] = i

\* C11: the listing of manager M holds only requests whose manager_empid is
\* M and whose status is pending: no approved or rejected request and no
\* request of another manager is in it.
C11_PendingListingSound ==
    (response.call.op = "pending" /\ response.result = "Listed")
    => \A k \in DOMAIN response.listing :
          /\ response.listing[k] \in DOMAIN requests
          /\ requests[response.listing[k]].manager_empid = response.call.user
          /\ requests[response.listing[k]].status = "pending"

\* A manager just listed one pending request while a request this manager
\* has answered is stored too.
C11_Witness ==
    /\ response.call.op = "pending"
    /\ response.result = "Listed"
    /\ Len(response.listing) = 1
    /\ \E i \in DOMAIN requests :
          /\ requests[i].manager_empid = response.call.user
          /\ requests[i].status # "pending"

\* C12: a successful creation by employee E appends one row for the
\* training asked for, with status pending and with the manager_empid the
\* directory gives for E at the call, and leaves the other rows as they are.
C12_CreatedPendingForManager ==
    [][(Answered("create") /\ response'.result = "Created")
       => (/\ Len(requests') = Len(requests) + 1
           /\ SubSeq(requests', 1, Len(requests)) = requests
           /\ requests'[Len(requests')].status = "pending"
           /\ requests'[Len(requests')].training_id = response'.call.training_id
           /\ requests'[Len(requests')].employee_empid = response'.call.user
           /\ requests'[Len(requests')].manager_empid # NoManager
           /\ requests'[Len(requests')].manager_empid
                 = directory[response'.call.user])]_vars

\* A request was just created for an employee whose manager is m2 while the
\* request of an employee of m1 is stored too.
C12_Witness ==
    /\ response.call.op = "create"
    /\ response.result = "Created"
    /\ requests[Len(requests)].manager_empid = "m2"
    /\ directory[response.call.user] = "m2"
    /\ \E i \in DOMAIN requests : requests[i].manager_empid = "m1"

\* C13: the listing of employee E holds each request whose employee_empid
\* is E once and no other request, and no request comes before one with a
\* later request_date.
C13_MyListingExactAndOrdered ==
    (response.call.op = "my" /\ response.result = "Listed")
    => /\ {response.listing[k] : k \in DOMAIN response.listing}
             = {i \in DOMAIN requests :
                   requests[i].employee_empid = response.call.user}
       /\ \A j, k \in DOMAIN response.listing :
             j # k => response.listing[j] # response.listing[k]
       /\ \A j, k \in DOMAIN response.listing :
             j < k => requests[response.listing[j]].request_date
                        >= requests[response.listing[k]].request_date

\* An employee just listed two requests, the later one first.
C13_Witness ==
    /\ response.call.op = "my"
    /\ response.result = "Listed"
    /\ Len(response.listing) = 2
    /\ requests[response.listing[1]].request_date
          > requests[response.listing[2]].request_date
    /\ response.listing[1] > response.listing[2]

\* C14: a creation that fails with Unauthenticated, NotFound or Conflict
\* leaves the requests and the assignments as they are, and a creation for a
\* training_id that is not in the catalog is such a failure.
C14_FailedCreateWritesNothing ==
    [][Answered("create")
       => (/\ response'.result \in {"Unauthenticated", "NotFoundTraining",
                                     "NotFoundManager", "Conflict"}
                 => UNCHANGED <<requests, assignments>>
           /\ (response'.call.user # NoUser
                  /\ response'.call.training_id \notin Catalog)
                 => (/\ response'.result = "NotFoundTraining"
                     /\ UNCHANGED <<requests, assignments>>))]_vars

\* An employee who has a manager just asked for a training that does not
\* exist and got NotFound, while a request is stored.
C14_Witness ==
    /\ response.call.op = "create"
    /\ response.result = "NotFoundTraining"
    /\ directory[response.call.user] # NoManager
    /\ requests # <<>>

\* C15: under any interleaving of concurrent answers to the same request, an
\* approved request has exactly one assignment made from it and a rejected
\* or pending request has none.
C15_AssignmentIffApprovedInterleaved ==
    \A i \in DOMAIN requests :
        /\ requests[i].status = "approved" => Cardinality(AssignmentsOf(i)) = 1
        /\ requests[i].status \in {"rejected", "pending"} => AssignmentsOf(i) = {}

\* C16: the training_id, employee_empid, manager_empid and request_date of
\* a stored request never change, whatever is answered to it and however the
\* directory entry of its employee changes, and no request is removed.
C16_CreationFieldsImmutable ==
    [][\A i \in DOMAIN requests :
          /\ i \in DOMAIN requests'
          /\ requests'[i].training_id = requests[i].training_id
          /\ requests'[i].employee_empid = requests[i].employee_empid
          /\ requests'[i].manager_empid = requests[i].manager_empid
          /\ requests'[i].request_date = requests[i].request_date]_vars

\* A request was just answered, at a time later than its request_date, by
\* its stored manager while the directory names another manager for its
\* employee.
C16_Witness ==
    /\ response.call.op = "respond"
    /\ response.result = "Updated"
    /\ requests[response.call.request_id].manager_empid = response.call.user
    /\ directory[requests[response.call.request_id].employee_empid]
          \in Mgrs \ {response.call.user}
    /\ requests[response.call.request_id].response_date
          > requests[response.call.request_id].request_date

\* C17: in every state the response_date of a request is null exactly when
\* its status is pending, and a pending request has null manager_notes.
C17_ResponseDateIffAnswered ==
    \A i \in DOMAIN requests :
        /\ (requests[i].response_date = NullDate) <=> (requests[i].status = "pending")
        /\ requests[i].status = "pending" => requests[i].manager_notes = NoNotes

\* One request is approved with notes and a response_date, another is
\* rejected without notes and has a response_date too.
C17_Witness ==
    /\ \E i \in DOMAIN requests :
          /\ requests[i].status = "approved"
          /\ requests[i].manager_notes # NoNotes
          /\ requests[i].response_date # NullDate
    /\ \E i \in DOMAIN requests :
          /\ requests[i].status = "rejected"
          /\ requests[i].manager_notes = NoNotes
          /\ requests[i].response_date # NullDate

\* C18: a creation reports the first check that fails in the order
\* identity, training, manager, duplicate: a training that does not exist
\* gives NotFound(training) whether or not the caller has a manager, and a
\* caller without manager gives NotFound(manager) whether or not the pair
\* already has a request.
C18_FirstFailingCheck ==
    [][Answered("create")
       => response'.result =
            IF response'.call.user = NoUser THEN "Unauthenticated"
            ELSE IF response'.call.training_id \notin Catalog
              THEN "NotFoundTraining"
            ELSE IF directory[response'.call.user] = NoManager
              THEN "NotFoundManager"
            ELSE IF ExistingRequests(response'.call.training_id,
                                     response'.call.user) # {}
              THEN "Conflict"
            ELSE response'.result]_vars

\* A caller whose directory entry was removed just asked again for a
\* training already requested and got NotFound(manager).
C18_Witness ==
    /\ response.call.op = "create"
    /\ response.result = "NotFoundManager"
    /\ ExistingRequests(response.call.training_id, response.call.user) # {}

\* C19: the migration is convergent and idempotent: a run started without
\* the table, or with the table and any of the two added columns and of the
\* three indexes, ends with the table having both columns and the three
\* indexes, and the run after it changes nothing.
C19_MigrationConvergentIdempotent ==
    [][migration'.runs = migration.runs + 1
       => (/\ schema' = MigratedSchema
           /\ migration.runs >= 1 => schema' = schema)]_vars

\* Two runs have ended on a table that had response_date but not
\* manager_notes, and the manager index but not the two others.
C19_Witness ==
    /\ migration.runs = 2
    /\ migration.pc = "idle"
    /\ migration.initial.exists
    /\ migration.initial.columns = BaseColumns \cup {"response_date"}
    /\ migration.initial.indexes = {"idx_training_requests_manager"}
    /\ schema = MigratedSchema

====
